---- MODULE Spec2Model ----
(***************************************************************************)
(* db3 node: the rollup executor (rollup_executor.rs) and the indexer      *)
(* (indexer_impl.rs) as state machines.                                    *)
(***************************************************************************)
EXTENDS Integers, Sequences, FiniteSets, TLC

\* ------------------------------------------------------------------ bounds
\* highest value of the mutation store's block counter
MaxBlock == 4
\* highest order id of a mutation inside one block (orders are 0..MaxOrder)
MaxOrder == 0
\* number of times a new system configuration is persisted
MaxConfigVer == 2
\* highest value of the block counter in the behaviours with configuration reloads
MaxReloadBlock == 2

\* number of concurrent start_an_event_task calls
MaxRegs == 3
\* longest primary mutation log
MaxPrimaryLen == 3
\* largest order id within one block of the primary log
MaxPrimaryOrder == 1
\* number of restarts of the indexer
MaxRuns == 1
MaxInFlight == 1
MaxOverlapBlock == 1
MaxOverlapRecords == 2
\* blocks one get_blocks request of the backlog recovery spans
FetchWindow == 1000
\* blocks the backlog recovery cursor advances per iteration
CursorStride == 100

\* ------------------------------------------------------- rollup executor
VARIABLES
    sys_config,           \* system_store.get_config(DataRollupNode): persisted config, ver 0 = none
    meta_store,           \* ArcSwapOption<MetaStoreClient>: 0 = None, else the config version it was built from
    ar_toolbox,           \* ArcSwapOption<ArToolBox>: 0 = None, else the config version it was built from
    min_rollup_size,
    rollup_max_interval,
    min_gc_round_offset,
    network_id,
    pending_mutations,
    pending_data_size,
    pending_start_block,
    pending_end_block,
    current_block,        \* MutationStore: the block open for new mutations
    mutations,            \* MutationStore: the mutation log, a set of <<block, order>>
    rollup_records,       \* MutationStore: rollup-record log, in append order
    gc_records,           \* MutationStore: gc-record log, in append order
    last_blob,            \* blob store: the blob uploaded last (id 0 = none yet)
    rollup_step,          \* smart contract: the blob id of the last update_rollup_step (0 = none yet)
    tick,                 \* tick[t]: position and locals of process() invocation t
    upd,                  \* position and locals of the update_config call
    gc_deleted,           \* history: the ranges <<start, end>> gc_range_mutation has deleted
    gc_offsets_used,      \* history: min_gc_round_offset values gc_mutation calls have loaded
    gc_failed             \* history: some gc_mutation call returned a storage error

cfgVars == <<min_rollup_size, rollup_max_interval, min_gc_round_offset, network_id>>
clientVars == <<meta_store, ar_toolbox>>
pendingVars == <<pending_mutations, pending_data_size, pending_start_block, pending_end_block>>
logVars == <<current_block, mutations>>
recordVars == <<rollup_records, gc_records>>
remoteVars == <<last_blob, rollup_step>>
gcHistVars == <<gc_deleted, gc_offsets_used, gc_failed>>
\* ----------------------------------------------- event processor registry
VARIABLES
    processor_mapping,    \* Arc<Mutex<HashMap<String, Arc<EventProcessor>>>>: a set of entries
    listeners,            \* the listener tasks spawned by task::spawn: <<contract address, processor>>
    reg                   \* reg[r]: position and locals of start_an_event_task call r

registryVars == <<processor_mapping, listeners, reg>>

rollupVars == <<sys_config, cfgVars, clientVars, pendingVars, logVars, recordVars,
                remoteVars, tick, upd, gcHistVars>>

NoConfig == [ver |-> 0]

\* the system configurations an administrator may persist
ConfigChoices ==
    { [min_rollup_size |-> 2, rollup_max_interval |-> 10, min_gc_offset |-> 2, network_id |-> 1],
      [min_rollup_size |-> 3, rollup_max_interval |-> 20, min_gc_offset |-> 0, network_id |-> 2] }

WithVer(c, v) ==
    [ver |-> v, min_rollup_size |-> c.min_rollup_size,
     rollup_max_interval |-> c.rollup_max_interval,
     min_gc_offset |-> c.min_gc_offset, network_id |-> c.network_id]

TickIds == {1, 2}

IdleTick ==
    [pc |-> "idle", meta_store |-> 0, ar_toolbox |-> 0, network_id |-> 0,
     last_start_block |-> 0, last_end_block |-> 0, tx |-> 0, current_block |-> 0,
     batch |-> {}, memory_size |-> 0, id |-> 0, result |-> "none",
     flushed |-> FALSE, at_start |-> <<>>, prev |-> <<>>]

NoBlob ==
    [id |-> 0, prev |-> 0, start_block |-> 0, end_block |-> 0, batch |-> {},
     network_id |-> 0, client |-> 0]

IdleUpd == [pc |-> "idle", c |-> NoConfig, result |-> "none", at_start |-> <<>>]

Max(a, b) == IF a >= b THEN a ELSE b

\* ---------------------------------------------- mutation store (adapters)
RangeOf(r) == <<r.start_block, r.end_block>>

get_last_rollup_record(recs) ==
    IF recs = <<>> THEN <<>> ELSE <<recs[Len(recs)]>>

get_last_gc_record(recs) ==
    IF recs = <<>> THEN <<>> ELSE <<recs[Len(recs)]>>

get_range_mutations(log, start, end) ==
    {m \in log : start <= m[1] /\ m[1] < end}

\* the rollup record whose start_block is start
get_rollup_record(recs, start) ==
    LET S == {i \in 1..Len(recs) : recs[i].start_block = start}
    IN IF S = {} THEN <<>>
       ELSE <<recs[CHOOSE i \in S : \A j \in S : i <= j]>>

\* the first rollup record after the one starting at start
get_next_rollup_record(recs, start) ==
    LET S == {i \in 1..Len(recs) : recs[i].start_block > start}
    IN IF S = {} THEN <<>>
       ELSE <<recs[CHOOSE i \in S : \A j \in S : recs[i].start_block <= recs[j].start_block /\ (recs[i].start_block = recs[j].start_block => i <= j)]>>

\* are there at least min_rounds rollup rounds strictly later than start_block
has_enough_round_left(recs, start_block, min_rounds) ==
    Cardinality({i \in 1..Len(recs) : recs[i].start_block > start_block}) >= min_rounds

gc_range_mutation(log, start, end) ==
    {m \in log : ~(start <= m[1] /\ m[1] < end)}

\* recordbatch.get_array_memory_size(): one unit per mutation and one for the arrays
get_array_memory_size(batch) == Cardinality(batch) + 1

\* ------------------------------------------------------------------- Init
InitRollup ==
    /\ \/ /\ sys_config = NoConfig
          /\ meta_store = 0 /\ ar_toolbox = 0
          /\ min_rollup_size = 0 /\ rollup_max_interval = 0
          /\ min_gc_round_offset = 0 /\ network_id = 0
       \/ \E c \in ConfigChoices :
          /\ sys_config = WithVer(c, 1)
          /\ meta_store = 1 /\ ar_toolbox = 1
          /\ min_rollup_size = c.min_rollup_size
          /\ rollup_max_interval = c.rollup_max_interval
          /\ min_gc_round_offset = c.min_gc_offset
          /\ network_id = c.network_id
    /\ pending_mutations = 0 /\ pending_data_size = 0
    /\ pending_start_block = 0 /\ pending_end_block = 0
    /\ current_block = 0 /\ mutations = {}
    /\ rollup_records = <<>> /\ gc_records = <<>>
    /\ last_blob = NoBlob /\ rollup_step = 0
    /\ tick = [t \in TickIds |-> IdleTick]
    /\ upd = IdleUpd
    /\ gc_deleted = {} /\ gc_offsets_used = {} /\ gc_failed = FALSE

\* --------------------------------------------------- environment (writers)
\* MutationStore::add_mutation: a mutation enters the open block
AddMutation ==
    LET order == Cardinality({m \in mutations : m[1] = current_block})
    IN /\ order <= MaxOrder
       /\ mutations' = mutations \cup {<<current_block, order>>}
       /\ UNCHANGED <<sys_config, cfgVars, clientVars, pendingVars, current_block,
                      recordVars, remoteVars, tick, upd, gcHistVars>>

\* MutationStore: the block counter advances
IncreaseBlock ==
    /\ current_block < MaxBlock
    /\ current_block' = current_block + 1
    /\ UNCHANGED <<sys_config, cfgVars, clientVars, pendingVars, mutations,
                   recordVars, remoteVars, tick, upd, gcHistVars>>

\* SystemStore::update_config: an administrator persists a new configuration
PersistConfig ==
    /\ sys_config.ver < MaxConfigVer
    /\ \E c \in ConfigChoices : sys_config' = WithVer(c, sys_config.ver + 1)
    /\ UNCHANGED <<cfgVars, clientVars, pendingVars, logVars, recordVars,
                   remoteVars, tick, upd, gcHistVars>>

\* ------------------------------------------------------------ update_config
UpdReturn(res) == upd' = [IdleUpd EXCEPT !.result = res]

\* history: the scalars and the client handles when update_config was called
UpdAtStart == <<[cfg |-> cfgVars, clients |-> clientVars]>>

\* get_config, get_evm_wallet, the stores of min_rollup_size and rollup_max_interval
UpdateConfigBegin ==
    /\ upd.pc = "idle"
    /\ \E outcome \in {"ok", "get_config_err", "get_evm_wallet_err"} :
        \/ /\ outcome = "get_config_err"
           /\ UpdReturn("Err")
           /\ UNCHANGED cfgVars
        \/ /\ outcome = "ok"
           /\ sys_config.ver = 0
           /\ UpdReturn("Ok")
           /\ UNCHANGED cfgVars
        \/ /\ outcome = "get_evm_wallet_err"
           /\ sys_config.ver # 0
           /\ UpdReturn("Err")
           /\ UNCHANGED cfgVars
        \/ /\ outcome = "ok"
           /\ sys_config.ver # 0
           /\ min_rollup_size' = sys_config.min_rollup_size
           /\ rollup_max_interval' = sys_config.rollup_max_interval
           /\ upd' = [pc |-> "meta", c |-> sys_config, result |-> "none",
                       at_start |-> UpdAtStart]
           /\ UNCHANGED <<min_gc_round_offset, network_id>>
    /\ UNCHANGED <<sys_config, clientVars, pendingVars, logVars, recordVars,
                   remoteVars, tick, gcHistVars>>

\* MetaStoreClient::new completes; the stores of min_gc_round_offset and meta_store
UpdateConfigMeta ==
    /\ upd.pc = "meta"
    /\ \E ok \in BOOLEAN :
        \/ /\ ~ok
           /\ UpdReturn("Err")
           /\ UNCHANGED <<min_gc_round_offset, meta_store>>
        \/ /\ ok
           /\ min_gc_round_offset' = upd.c.min_gc_offset
           /\ meta_store' = upd.c.ver
           /\ upd' = [upd EXCEPT !.pc = "ar"]
    /\ UNCHANGED <<sys_config, min_rollup_size, rollup_max_interval, network_id,
                   ar_toolbox, pendingVars, logVars, recordVars, remoteVars, tick,
                   gcHistVars>>

\* ArFileSystem::new, ArToolBox::new; the stores of ar_toolbox and network_id
UpdateConfigAr ==
    /\ upd.pc = "ar"
    /\ \E ok \in BOOLEAN :
        \/ /\ ~ok
           /\ UpdReturn("Err")
           /\ UNCHANGED <<ar_toolbox, network_id>>
        \/ /\ ok
           /\ ar_toolbox' = upd.c.ver
           /\ network_id' = upd.c.network_id
           /\ UpdReturn("Ok")
    /\ UNCHANGED <<sys_config, min_rollup_size, rollup_max_interval,
                   min_gc_round_offset, meta_store, pendingVars, logVars,
                   recordVars, remoteVars, tick, gcHistVars>>

update_config == UpdateConfigBegin \/ UpdateConfigMeta \/ UpdateConfigAr

\* ---------------------------------------------------------------- gc_mutation
\* gc_mutation without the round offset: any later round is enough
GcEnough_IgnoreOffset(last_start_block) ==
    has_enough_round_left(rollup_records, last_start_block, 0)

\* has_enough_round_left(last_start_block, min_gc_round_offset.load())
GcEnough(last_start_block) ==
    has_enough_round_left(rollup_records, last_start_block, min_gc_round_offset)

\* gc_mutation retiring the newest rollup record
GcFound_Newest(first, last_start_block) == get_last_rollup_record(rollup_records)

\* gc_mutation taking the next record on the first run too
GcFound_AlwaysNext(first, last_start_block) ==
    get_next_rollup_record(rollup_records, last_start_block)

\* the rollup record gc_mutation retires: get_rollup_record on the first run,
\* get_next_rollup_record afterwards
GcFound(first, last_start_block) ==
    IF first
    THEN get_rollup_record(rollup_records, last_start_block)
    ELSE get_next_rollup_record(rollup_records, last_start_block)

\* gc_mutation reclaiming up to the open block instead of the record's end
GcRange_ToCurrentBlock(r) == <<r.start_block, current_block>>

\* the range passed to gc_range_mutation and written to the GcRecord
GcRange(r) == <<r.start_block, r.end_block>>

\* gc_mutation run to its end; fail names the storage call that returns an error
gc_mutation(fail) ==
    LET last == get_last_gc_record(gc_records)
        first == (last = <<>>)
        last_start_block == IF first THEN 0 ELSE last[1].start_block
        found == GcFound(first, last_start_block)
        reached == GcEnough(last_start_block) /\ found # <<>>
    IN IF fail = "get_last_gc_record"
       THEN /\ gc_failed' = TRUE
            /\ UNCHANGED <<mutations, gc_records, gc_deleted, gc_offsets_used>>
       ELSE /\ gc_offsets_used' = gc_offsets_used \cup {min_gc_round_offset}
            /\ IF ~reached
               THEN /\ fail = "none"
                    /\ UNCHANGED <<mutations, gc_records, gc_deleted, gc_failed>>
               ELSE LET r == found[1]
                        range == GcRange(r)
                    IN
                    \/ /\ fail = "gc_range_mutation"
                       /\ gc_failed' = TRUE
                       /\ UNCHANGED <<mutations, gc_records, gc_deleted>>
                    \/ /\ fail \in {"none", "add_gc_record"}
                       /\ mutations' = gc_range_mutation(mutations, range[1], range[2])
                       /\ gc_deleted' = gc_deleted \cup {range}
                       /\ IF fail = "none"
                          THEN /\ gc_records' = Append(gc_records,
                                      [start_block |-> range[1],
                                       end_block |-> range[2],
                                       data_size |-> r.raw_data_size])
                               /\ UNCHANGED gc_failed
                          ELSE /\ gc_failed' = TRUE
                               /\ UNCHANGED gc_records

\* -------------------------------------------------------------------- process
\* history: what the stores, the remote side and the pending counters held when
\* the tick began
AtStart ==
    <<[rollup_records |-> rollup_records, gc_records |-> gc_records,
       last_blob |-> last_blob, rollup_step |-> rollup_step,
       gc_deleted |-> gc_deleted,
       pending |-> <<pending_start_block, pending_end_block, pending_mutations,
                     pending_data_size>>]>>

\* history: the range of the last tick that failed after the threshold gate,
\* kept until a tick has stored a record and returned
PrevAfter(t, res) ==
    IF res = "Err" /\ tick[t].pc \in {"upload", "contract", "record"}
    THEN <<[start_block |-> tick[t].last_end_block, end_block |-> tick[t].current_block]>>
    ELSE IF tick[t].pc = "gc" THEN <<>> ELSE tick[t].prev

Return(t, res) ==
    tick' = [tick EXCEPT ![t] = [IdleTick EXCEPT !.result = res,
                                                 !.prev = PrevAfter(t, res)]]

\* self.meta_store.load_full()
ProcessLoadMeta(t) ==
    /\ tick[t].pc = "idle"
    /\ tick' = [tick EXCEPT ![t] = [IdleTick EXCEPT !.pc = "load_ar",
                                                     !.meta_store = meta_store,
                                                     !.at_start = AtStart,
                                                     !.prev = tick[t].prev]]
    /\ UNCHANGED <<sys_config, cfgVars, clientVars, pendingVars, logVars, recordVars,
                   remoteVars, upd, gcHistVars>>

\* a gate that takes the executor for configured whatever it loaded
Configured_Always(m, a) == TRUE

\* if let (Some(ref meta_store), Some(ref ar_toolbox)) = (.., ..)
Configured(m, a) == m # 0 /\ a # 0

\* self.ar_toolbox.load_full() and the configuration gate
ProcessLoadAr(t) ==
    /\ tick[t].pc = "load_ar"
    /\ IF Configured(tick[t].meta_store, ar_toolbox)
       THEN tick' = [tick EXCEPT ![t].pc = "snapshot", ![t].ar_toolbox = ar_toolbox]
       ELSE Return(t, "Ok")
    /\ UNCHANGED <<sys_config, cfgVars, clientVars, pendingVars, logVars, recordVars,
                   remoteVars, upd, gcHistVars>>

\* an upload linked to the blob uploaded last, recorded or not
PrevBlobOf_LastUploaded(last) == last_blob.id

\* match get_last_rollup_record()? { Some(r) => r.arweave_tx.to_string(), _ => "" }:
\* 0 stands for the empty string
PrevBlobOf(last) == IF last = <<>> THEN 0 ELSE last[1].arweave_tx

\* a tick that starts where the pending counters say the last one stopped
LastEndOf_Pending(last) == pending_end_block

\* match get_last_rollup_record()? { Some(r) => r.end_block, _ => 0 }
LastEndOf(last) == IF last = <<>> THEN 0 ELSE last[1].end_block

\* network_id, flush_state, get_last_rollup_record, get_current_block, the
\* "no block to rollup" gate and the stores of pending_start_block / pending_end_block
ProcessSnapshot(t) ==
    /\ tick[t].pc = "snapshot"
    /\ \E ok \in BOOLEAN :
        LET last == get_last_rollup_record(rollup_records)
            last_start_block == IF last = <<>> THEN 0 ELSE last[1].start_block
            last_end_block == LastEndOf(last)
            tx == PrevBlobOf(last)
        IN \/ /\ ~ok
              /\ Return(t, "Err")
              /\ UNCHANGED <<pending_start_block, pending_end_block>>
           \/ /\ ok
              /\ current_block <= last_end_block
              /\ Return(t, "Ok")
              /\ UNCHANGED <<pending_start_block, pending_end_block>>
           \/ /\ ok
              /\ current_block > last_end_block
              /\ pending_start_block' = last_start_block
              /\ pending_end_block' = current_block
              /\ tick' = [tick EXCEPT ![t].pc = "fetch",
                                      ![t].flushed = TRUE,
                                      ![t].network_id = network_id,
                                      ![t].last_start_block = last_start_block,
                                      ![t].last_end_block = last_end_block,
                                      ![t].tx = tx,
                                      ![t].current_block = current_block]
    /\ UNCHANGED <<sys_config, cfgVars, clientVars, pending_mutations,
                   pending_data_size, logVars, recordVars, remoteVars, upd, gcHistVars>>

\* the counters all set to zero once the batch goes on to the upload
InFlightCounters_Zero(current) == <<0, 0, 0, 0>>

\* the else branch of the threshold test: pending_start_block and
\* pending_end_block = current_block, pending_mutations and pending_data_size = 0
InFlightCounters(current) == <<current, current, 0, 0>>

\* a gate that lets every batch through
BelowThreshold_Never(memory_size) == FALSE

\* memory_size < self.min_rollup_size.load(Ordering::Relaxed) as usize
BelowThreshold(memory_size) == memory_size < min_rollup_size

\* get_range_mutations, convert_mutations_to_recordbatch, the threshold gate and
\* the stores of the pending counters
ProcessFetch(t) ==
    /\ tick[t].pc = "fetch"
    /\ \E outcome \in {"ok", "get_range_mutations_err", "convert_err"} :
        LET batch == get_range_mutations(mutations, tick[t].last_end_block,
                                         tick[t].current_block)
            memory_size == get_array_memory_size(batch)
        IN \/ /\ outcome = "get_range_mutations_err"
              /\ Return(t, "Err")
              /\ UNCHANGED pendingVars
           \/ /\ outcome = "ok"
              /\ batch = {}
              /\ Return(t, "Ok")
              /\ UNCHANGED pendingVars
           \/ /\ outcome = "convert_err"
              /\ batch # {}
              /\ pending_mutations' = Cardinality(batch)
              /\ Return(t, "Err")
              /\ UNCHANGED <<pending_data_size, pending_start_block, pending_end_block>>
           \/ /\ outcome = "ok"
              /\ batch # {}
              /\ BelowThreshold(memory_size)
              /\ pending_mutations' = Cardinality(batch)
              /\ pending_data_size' = memory_size
              /\ Return(t, "Ok")
              /\ UNCHANGED <<pending_start_block, pending_end_block>>
           \/ /\ outcome = "ok"
              /\ batch # {}
              /\ ~BelowThreshold(memory_size)
              /\ pending_start_block' = InFlightCounters(tick[t].current_block)[1]
              /\ pending_end_block' = InFlightCounters(tick[t].current_block)[2]
              /\ pending_mutations' = InFlightCounters(tick[t].current_block)[3]
              /\ pending_data_size' = InFlightCounters(tick[t].current_block)[4]
              /\ tick' = [tick EXCEPT ![t].pc = "upload", ![t].batch = batch,
                                      ![t].memory_size = memory_size]
    /\ UNCHANGED <<sys_config, cfgVars, clientVars, logVars, recordVars, remoteVars,
                   upd, gcHistVars>>

\* a tick that stores the record before it updates the contract
StepAfter_RecordFirst(pc) ==
    IF pc = "upload" THEN "record" ELSE IF pc = "record" THEN "contract" ELSE "gc"

\* the statement process() reaches when the awaited call returned Ok: upload,
\* update_rollup_step, add_rollup_record, gc_mutation
StepAfter(pc) ==
    IF pc = "upload" THEN "contract" ELSE IF pc = "contract" THEN "record" ELSE "gc"

\* the id the blob store gives a new blob: one that no rollup record holds, no
\* running tick holds and the previous blob did not get
NewBlobId ==
    LET used == {rollup_records[i].arweave_tx : i \in 1..Len(rollup_records)}
                \cup {tick[u].id : u \in TickIds} \cup {last_blob.id}
    IN CHOOSE i \in 1..(Cardinality(used) + 1) :
           i \notin used /\ \A j \in 1..(i - 1) : j \in used

\* ar_toolbox.compress_and_upload_record_batch(tx, last_end_block, current_block, ..)
ProcessUpload(t) ==
    /\ tick[t].pc = "upload"
    /\ \E ok \in BOOLEAN :
        \/ /\ ~ok
           /\ Return(t, "Err")
           /\ UNCHANGED last_blob
        \/ /\ ok
           /\ last_blob' =
                  [id |-> NewBlobId, prev |-> tick[t].tx,
                   start_block |-> tick[t].last_end_block,
                   end_block |-> tick[t].current_block,
                   batch |-> tick[t].batch, network_id |-> tick[t].network_id,
                   client |-> tick[t].ar_toolbox]
           /\ tick' = [tick EXCEPT ![t].pc = StepAfter("upload"), ![t].id = NewBlobId]
    /\ UNCHANGED <<sys_config, cfgVars, clientVars, pendingVars, logVars, recordVars,
                   rollup_step, upd, gcHistVars>>

\* meta_store.update_rollup_step(id, network_id)
ProcessUpdateRollupStep(t) ==
    /\ tick[t].pc = "contract"
    /\ \E ok \in BOOLEAN :
        \/ /\ ~ok
           /\ Return(t, "Err")
           /\ UNCHANGED rollup_step
        \/ /\ ok
           /\ rollup_step' = tick[t].id
           /\ tick' = [tick EXCEPT ![t].pc = StepAfter("contract")]
    /\ UNCHANGED <<sys_config, cfgVars, clientVars, pendingVars, logVars, recordVars,
                   last_blob, upd, gcHistVars>>

\* a record that starts at the last record's start instead of its end
RollupRecordOf_FromLastStart(t) ==
    [start_block |-> tick[t].last_start_block,
     end_block |-> tick[t].current_block,
     arweave_tx |-> tick[t].id,
     raw_data_size |-> tick[t].memory_size,
     mutation_count |-> Cardinality(tick[t].batch)]

\* let record = RollupRecord { .. }
RollupRecordOf(t) ==
    [start_block |-> tick[t].last_end_block,
     end_block |-> tick[t].current_block,
     arweave_tx |-> tick[t].id,
     raw_data_size |-> tick[t].memory_size,
     mutation_count |-> Cardinality(tick[t].batch)]

\* storage.add_rollup_record(&record)
ProcessAddRecord(t) ==
    /\ tick[t].pc = "record"
    /\ \E ok \in BOOLEAN :
        \/ /\ ~ok
           /\ Return(t, "Err")
           /\ UNCHANGED rollup_records
        \/ /\ ok
           /\ rollup_records' = Append(rollup_records, RollupRecordOf(t))
           /\ tick' = [tick EXCEPT ![t].pc = StepAfter("record")]
    /\ UNCHANGED <<sys_config, cfgVars, clientVars, pendingVars, logVars, gc_records,
                   remoteVars, upd, gcHistVars>>

\* self.gc_mutation()? and the return of process()
ProcessGc(t) ==
    /\ tick[t].pc = "gc"
    /\ \E fail \in {"none", "get_last_gc_record", "gc_range_mutation", "add_gc_record"} :
        /\ gc_mutation(fail)
        /\ Return(t, IF fail = "none" THEN "Ok" ELSE "Err")
    /\ UNCHANGED <<sys_config, cfgVars, clientVars, pendingVars, current_block,
                   rollup_records, remoteVars, upd>>

process(t) ==
    \/ ProcessLoadMeta(t)
    \/ ProcessLoadAr(t)
    \/ ProcessSnapshot(t)
    \/ ProcessFetch(t)
    \/ ProcessUpload(t)
    \/ ProcessUpdateRollupStep(t)
    \/ ProcessAddRecord(t)
    \/ ProcessGc(t)

\* ============================================= event processor registry
RegIds == 1..MaxRegs

ContractAddrs == {"0xA", "0xB"}

IdleReg ==
    [pc |-> "idle", contract_address |-> "", existed |-> FALSE, prior |-> 0,
     result |-> "none"]

\* DB3Error::WriteStoreError(format!("{e}")) of a failed EventProcessor::new
ConstructErr == "WriteStoreError(event processor)"

\* DB3Error::WriteStoreError(format!("contract_addr {} exist", ..))
ExistErr == "WriteStoreError(contract_addr exist)"

\* the registry never answers that a key is present
contains_key_Never(mapping, contract_address) == FALSE

\* mapping.contains_key(contract_address)
contains_key(mapping, contract_address) ==
    \E e \in mapping : e.contract_address = contract_address

\* the processor registered under contract_address, 0 when there is none
ProcessorOf(mapping, contract_address) ==
    IF contains_key(mapping, contract_address)
    THEN (CHOOSE e \in mapping : e.contract_address = contract_address).processor
    ELSE 0

\* mapping.insert(contract_address, processor): HashMap::insert replaces
insert(mapping, contract_address, processor) ==
    {e \in mapping : e.contract_address # contract_address}
        \cup {[contract_address |-> contract_address, processor |-> processor]}

\* the critical section inserting before it looks the key up
LockedSection_InsertFirst(mapping, contract_address, processor) ==
    [mapping |-> insert(mapping, contract_address, processor),
     result |-> IF contains_key(mapping, contract_address) THEN ExistErr ELSE "inserted"]

\* the critical section under processor_mapping.lock(): the key test and the insert
LockedSection(mapping, contract_address, processor) ==
    IF contains_key(mapping, contract_address)
    THEN [mapping |-> mapping, result |-> ExistErr]
    ELSE [mapping |-> insert(mapping, contract_address, processor),
          result |-> "inserted"]

InitRegistry ==
    /\ processor_mapping = {}
    /\ listeners = {}
    /\ reg = [r \in RegIds |-> IdleReg]

RegReturn(r, res) == reg' = [reg EXCEPT ![r].pc = "done", ![r].result = res]

\* a caller invokes start_an_event_task for a contract address
RegCall(r) ==
    /\ reg[r].pc = "idle"
    /\ \A q \in RegIds : q < r => reg[q].pc # "idle"
    /\ \E a \in ContractAddrs :
        reg' = [reg EXCEPT ![r] =
                   [pc |-> "new", contract_address |-> a,
                    existed |-> contains_key(processor_mapping, a),
                    prior |-> ProcessorOf(processor_mapping, a),
                    result |-> "none"]]
    /\ UNCHANGED <<processor_mapping, listeners>>

\* EventProcessor::new(config, db_store).await
RegNew(r) ==
    /\ reg[r].pc = "new"
    /\ \E ok \in BOOLEAN :
        IF ok THEN reg' = [reg EXCEPT ![r].pc = "lock"]
              ELSE RegReturn(r, ConstructErr)
    /\ UNCHANGED <<processor_mapping, listeners>>

\* match self.processor_mapping.lock() { .. }
RegLock(r) ==
    /\ reg[r].pc = "lock"
    /\ LET out == LockedSection(processor_mapping, reg[r].contract_address, r)
       IN /\ processor_mapping' = out.mapping
          /\ IF out.result = "inserted"
             THEN reg' = [reg EXCEPT ![r].pc = "spawn"]
             ELSE RegReturn(r, out.result)
    /\ UNCHANGED listeners

\* task::spawn(async move { processor.start().await .. }); Ok(())
RegSpawn(r) ==
    /\ reg[r].pc = "spawn"
    /\ listeners' = listeners \cup {<<reg[r].contract_address, r>>}
    /\ RegReturn(r, "Ok")
    /\ UNCHANGED processor_mapping

start_an_event_task(r) == RegCall(r) \/ RegNew(r) \/ RegLock(r) \/ RegSpawn(r)

\* ==================================================== indexer block syncer
VARIABLES
    primary_log,      \* the primary node's mutation log, ascending in (block, order)
    archived,         \* the rollup blobs on Arweave: the index in primary_log each one ends at
    get_blocks_closed,\* whether the primary's get_blocks(start, end) includes block end
    event_dbs,        \* contract addresses of the event databases the document store holds
    doc_log,          \* document store: the mutations that took effect, in the order they did
    block_state,      \* document store: the persisted Option<BlockState>
    applied_keys,     \* history: keys apply_mutation accepted, duplicates counted once
    dup_applied,      \* history: apply_mutation accepted a mutation it had accepted before
    ix,               \* position and locals of IndexerNodeImpl::start
    phases,           \* history: the phases this call of start entered
    phase_results,    \* history: the results the finished phases returned
    runs              \* how many times the indexer process was started again

indexerVars == <<primary_log, archived, get_blocks_closed, event_dbs, doc_log,
                 block_state, applied_keys, dup_applied, ix, phases, phase_results, runs>>

storeVars == <<doc_log, block_state, applied_keys, dup_applied>>

envVars == <<primary_log, archived, get_blocks_closed, event_dbs>>

\* block ids the primary node produces mutations in
BlockIds == {0, 100, 1000, 2500}

EventDbChoices == {<<>>, <<"0xA", "0xB">>, <<"0xA", "0xA">>}

StartPhases ==
    <<"recover_state", "recover_from_ar", "recover_from_fetched_blocks", "subscribe">>

IdleIx ==
    [pc |-> "init", dbs |-> <<>>, start_block |-> 0, batch |-> <<>>, event |-> 0,
     subscribed |-> FALSE, result |-> "none", failed |-> "none", handled |-> "none"]

KeyOf(m) == <<m.block, m.order>>

KeyLess(a, b) == a[1] < b[1] \/ (a[1] = b[1] /\ a[2] < b[2])

\* store_sdk.get_blocks(start, end): the mutations of the blocks in the range, in log order
get_blocks(log, start, end, closed) ==
    SelectSeq(log, LAMBDA m :
        m.block >= start /\ (m.block < end \/ (closed /\ m.block = end)))

\* match recover_block_state()? { Some(block_state) => .., None => (0, 0) }
WatermarkOf(bs) == IF bs = <<>> THEN [block |-> 0, order |-> 0] ELSE bs[1]

\* db_store.apply_mutation(.., block, order, ..): a mutation whose (block, order)
\* already took effect changes nothing, any other takes effect and moves the block state
apply_mutation(log, bs, m) ==
    IF \E i \in 1..Len(log) : log[i] = KeyOf(m)
    THEN [doc_log |-> log, block_state |-> bs]
    ELSE [doc_log |-> Append(log, KeyOf(m)),
          block_state |-> <<[block |-> m.block, order |-> m.order]>>]

\* the loop taking the batch from its last mutation
NextOf_Last(batch) == batch[Len(batch)]

\* for mutation in mutations.iter(): the mutation the loop handles next
NextOf(batch) == Head(batch)

\* the live fetch starting after the watermark's block
HandleEventRange_AfterWatermark(bs, block_id) == <<WatermarkOf(bs).block + 1, block_id>>

\* get_blocks(block_state.block, be.block_id)
HandleEventRange(bs, block_id) == <<WatermarkOf(bs).block, block_id>>

\* get_blocks(start_block, start_block + 1000)
RecoverRange(start_block) == <<start_block, start_block + FetchWindow>>

\* start going on to the next phase whatever the phase returned
start_after_Ignore(res, k) == k + 1

\* the ? after each phase of start: 0 returns the error, else the phase to enter
start_after(res, k) == IF res = "Err" THEN 0 ELSE k + 1

InitIndexer ==
    /\ primary_log = <<>> /\ archived = <<>>
    /\ get_blocks_closed \in BOOLEAN
    /\ event_dbs \in EventDbChoices
    /\ doc_log = <<>> /\ block_state = <<>>
    /\ applied_keys = {} /\ dup_applied = FALSE
    /\ ix = IdleIx /\ phases = <<>> /\ phase_results = <<>>
    /\ runs = 0

\* a node that runs no indexer
NoIndexer ==
    /\ primary_log = <<>> /\ archived = <<>>
    /\ get_blocks_closed = FALSE
    /\ event_dbs = <<>>
    /\ doc_log = <<>> /\ block_state = <<>>
    /\ applied_keys = {} /\ dup_applied = FALSE
    /\ ix = IdleIx /\ phases = <<>> /\ phase_results = <<>>
    /\ runs = 0

\* the index in primary_log the last rollup blob ends at
LastArchived == IF archived = <<>> THEN 0 ELSE archived[Len(archived)]

\* the first index in primary_log of blob i
BlobStart(i) == IF i = 1 THEN 1 ELSE archived[i - 1] + 1

\* the end_block of blob i: the block after the last one it holds
BlobEndBlock(i) == primary_log[archived[i]].block + 1

\* recover_from_arweave(block): the mutations of every blob whose end_block is
\* greater than block, in log order
BlobsFrom(block) ==
    LET sel == {i \in 1..Len(archived) : BlobEndBlock(i) > block}
    IN IF sel = {} THEN <<>>
       ELSE SubSeq(primary_log, BlobStart(CHOOSE i \in sel : \A j \in sel : i <= j),
                   LastArchived)

\* the primary node appends a mutation to its log, in a block no blob holds; bad
\* marks one the indexer's light verification rejects
PrimaryAppend ==
    /\ Len(primary_log) < MaxPrimaryLen
    /\ \E b \in BlockIds, bad \in BOOLEAN :
        LET order == Cardinality({i \in 1..Len(primary_log) : primary_log[i].block = b})
        IN /\ \A i \in 1..Len(primary_log) : primary_log[i].block <= b
           /\ order <= MaxPrimaryOrder
           /\ LastArchived > 0 => primary_log[LastArchived].block < b
           /\ primary_log' = Append(primary_log, [block |-> b, order |-> order, bad |-> bad])
    /\ UNCHANGED <<archived, get_blocks_closed, event_dbs, storeVars, ix, phases,
                   phase_results, runs>>

\* the rollup node uploads the next whole blocks of the log in a blob
ArchiveRollup ==
    /\ \E n \in (LastArchived + 1)..Len(primary_log) :
        /\ IF n = Len(primary_log) THEN TRUE
           ELSE primary_log[n + 1].block > primary_log[n].block
        /\ \A i \in (LastArchived + 1)..n : ~primary_log[i].bad
        /\ archived' = Append(archived, n)
    /\ UNCHANGED <<primary_log, get_blocks_closed, event_dbs, storeVars, ix, phases,
                   phase_results, runs>>

\* one call of db_store.apply_mutation that returned Ok
Apply(m) ==
    LET out == apply_mutation(doc_log, block_state, m)
    IN /\ doc_log' = out.doc_log
       /\ block_state' = out.block_state
       /\ applied_keys' = applied_keys \cup {KeyOf(m)}
       /\ dup_applied' = (dup_applied \/ KeyOf(m) \in applied_keys)

RECURSIVE ReplayAll(_, _, _)
\* the store after apply_mutation took the mutations of ms one after the other
ReplayAll(log, bs, ms) ==
    IF ms = <<>> THEN [doc_log |-> log, block_state |-> bs]
    ELSE LET out == apply_mutation(log, bs, Head(ms))
         IN ReplayAll(out.doc_log, out.block_state, Tail(ms))

\* a phase of start returns res: start returns the error or enters the next phase
PhaseReturn(res, cause) ==
    LET k == start_after(res, Len(phases))
    IN /\ phase_results' = Append(phase_results, res)
       /\ IF k = 0
          THEN /\ ix' = [ix EXCEPT !.pc = "returned", !.result = "Err", !.failed = cause,
                                   !.dbs = <<>>, !.batch = <<>>]
               /\ UNCHANGED phases
          ELSE /\ ix' = [ix EXCEPT !.pc = StartPhases[k], !.dbs = <<>>, !.batch = <<>>,
                                   !.failed = IF res = "Err" THEN cause ELSE @]
               /\ phases' = Append(phases, StartPhases[k])

\* IndexerNodeImpl::start is called
StartCall ==
    /\ ix.pc = "init"
    /\ ix' = [ix EXCEPT !.pc = StartPhases[1]]
    /\ phases' = <<StartPhases[1]>>
    /\ UNCHANGED <<envVars, storeVars, phase_results, runs, registryVars>>

\* recover_state: recover_db_state()? and get_all_event_db()?
RecoverStateOpen ==
    /\ ix.pc = "recover_state"
    /\ \E out \in {"ok", "recover_db_state", "get_all_event_db"} :
        IF out = "ok"
        THEN /\ ix' = [ix EXCEPT !.pc = "recover_state_loop", !.dbs = event_dbs]
             /\ UNCHANGED <<phases, phase_results>>
        ELSE PhaseReturn("Err", out)
    /\ UNCHANGED <<envVars, storeVars, runs, registryVars>>

\* recover_state: one iteration of for database in databases; the error of
\* start_an_event_task is logged and dropped
RecoverStateEventDb ==
    /\ ix.pc = "recover_state_loop"
    /\ ix.dbs # <<>>
    /\ \E out \in {"ok", "try_from", "get_collection_of_database", "EventProcessor::new"} :
        CASE out = "ok" ->
               LET processor == MaxRegs + Len(ix.dbs)
                   sec == LockedSection(processor_mapping, Head(ix.dbs), processor)
               IN /\ processor_mapping' = sec.mapping
                  /\ listeners' = IF sec.result = "inserted"
                                  THEN listeners \cup {<<Head(ix.dbs), processor>>}
                                  ELSE listeners
                  /\ ix' = [ix EXCEPT !.dbs = Tail(@)]
                  /\ UNCHANGED <<phases, phase_results>>
          [] out = "EventProcessor::new" ->
               /\ ix' = [ix EXCEPT !.dbs = Tail(@)]
               /\ UNCHANGED <<phases, phase_results, processor_mapping, listeners>>
          [] OTHER ->
               /\ PhaseReturn("Err", out)
               /\ UNCHANGED <<processor_mapping, listeners>>
    /\ UNCHANGED <<envVars, storeVars, runs, reg>>

\* recover_state: Ok(()) after the loop
RecoverStateDone ==
    /\ ix.pc = "recover_state_loop"
    /\ ix.dbs = <<>>
    /\ PhaseReturn("Ok", "none")
    /\ UNCHANGED <<envVars, storeVars, runs, registryVars>>

\* recover_from_ar: Recover::new(..).await?, recover_block_state()?, then
\* recover_from_arweave(block) replays the blobs that end after the watermark's
\* block, stopping anywhere; what it returns is dropped
recover_from_ar ==
    /\ ix.pc = "recover_from_ar"
    /\ \E out \in {"ok", "Recover::new", "recover_block_state"} :
        IF out = "ok"
        THEN LET block == WatermarkOf(block_state).block
                 blobs == BlobsFrom(block)
             IN \E n \in 0..Len(blobs) :
                 LET ms == SubSeq(blobs, 1, n)
                     store == ReplayAll(doc_log, block_state, ms)
                     keys == {KeyOf(ms[i]) : i \in 1..n}
                 IN /\ doc_log' = store.doc_log
                    /\ block_state' = store.block_state
                    /\ applied_keys' = applied_keys \cup keys
                    /\ dup_applied' = (dup_applied \/ keys \cap applied_keys # {})
                    /\ PhaseReturn("Ok", "none")
        ELSE /\ PhaseReturn("Err", out)
             /\ UNCHANGED storeVars
    /\ UNCHANGED <<envVars, runs, registryVars>>

\* recover_from_fetched_blocks: recover_block_state()? sets the cursor
RecoverFetchedBegin ==
    /\ ix.pc = "recover_from_fetched_blocks"
    /\ \E ok \in BOOLEAN :
        IF ok
        THEN /\ ix' = [ix EXCEPT !.pc = "fetch_blocks",
                                 !.start_block = WatermarkOf(block_state).block]
             /\ UNCHANGED <<phases, phase_results>>
        ELSE PhaseReturn("Err", "recover_block_state")
    /\ UNCHANGED <<envVars, storeVars, runs, registryVars>>

\* recover_from_fetched_blocks: get_blocks(..)? and the test for an empty answer
RecoverFetchedFetch ==
    /\ ix.pc = "fetch_blocks"
    /\ \E ok \in BOOLEAN :
        IF ok
        THEN LET r == RecoverRange(ix.start_block)
                 ms == get_blocks(primary_log, r[1], r[2], get_blocks_closed)
             IN IF ms = <<>>
                THEN PhaseReturn("Ok", "none")
                ELSE /\ ix' = [ix EXCEPT !.pc = "fetch_apply", !.batch = ms]
                     /\ UNCHANGED <<phases, phase_results>>
        ELSE PhaseReturn("Err", "get_blocks")
    /\ UNCHANGED <<envVars, storeVars, runs, registryVars>>

\* a loop that asks for the same range again
NextCursor_Stay(start_block) == start_block

\* start_block += 100
NextCursor(start_block) == start_block + CursorStride

\* recover_from_fetched_blocks: one iteration of parse_and_apply_mutations(..)?
\* and, after the last, start_block += 100
RecoverFetchedApply ==
    /\ ix.pc = "fetch_apply"
    /\ LET m == NextOf(ix.batch)
       IN \E ok \in BOOLEAN :
           /\ m.bad => ~ok
           /\ IF ok
              THEN /\ Apply(m)
                   /\ ix' = IF Len(ix.batch) = 1
                            THEN [ix EXCEPT !.pc = "fetch_blocks", !.batch = <<>>,
                                            !.start_block = NextCursor(@)]
                            ELSE [ix EXCEPT !.batch = Tail(@)]
                   /\ UNCHANGED <<phases, phase_results>>
              ELSE /\ PhaseReturn("Err", "parse_and_apply_mutations")
                   /\ UNCHANGED storeVars
    /\ UNCHANGED <<envVars, runs, registryVars>>

\* store_sdk.subscribe_event_message().await
Subscribe ==
    /\ ix.pc = "subscribe"
    /\ \E ok \in BOOLEAN :
        ix' = IF ok THEN [ix EXCEPT !.pc = "stream", !.subscribed = TRUE]
                    ELSE [ix EXCEPT !.pc = "sleep"]
    /\ UNCHANGED <<envVars, storeVars, phases, phase_results, runs, registryVars>>

\* sleep(Duration::from_millis(1000 * 5)).await, then the loop subscribes again
SleepDone ==
    /\ ix.pc = "sleep"
    /\ ix' = [ix EXCEPT !.pc = "subscribe"]
    /\ UNCHANGED <<envVars, storeVars, phases, phase_results, runs, registryVars>>

\* stream.message().await.unwrap(): a block event, the end of the stream, or an
\* error on which unwrap panics
StreamMessage ==
    /\ ix.pc = "stream"
    /\ \/ \E b \in BlockIds : ix' = [ix EXCEPT !.pc = "handle_event", !.event = b,
                                              !.handled = "none"]
       \/ ix' = [ix EXCEPT !.pc = "subscribe"]
       \/ ix' = [ix EXCEPT !.pc = "panicked"]
    /\ UNCHANGED <<envVars, storeVars, phases, phase_results, runs, registryVars>>

\* handle_event returned Ok(()): the loop goes back to the stream
EventDone(x) == [x EXCEPT !.pc = "stream", !.batch = <<>>, !.event = 0, !.handled = "Ok"]

\* handle_event returned an error, which start logs: the loop goes back to the stream
EventFailed(x) == [x EXCEPT !.pc = "stream", !.batch = <<>>, !.event = 0, !.handled = "Err"]

\* handle_event: recover_block_state()? and get_blocks(..)?; start logs the error
handle_event ==
    /\ ix.pc = "handle_event"
    /\ \E ok \in BOOLEAN :
        IF ok
        THEN LET r == HandleEventRange(block_state, ix.event)
                 ms == get_blocks(primary_log, r[1], r[2], get_blocks_closed)
             IN ix' = IF ms = <<>> THEN EventDone(ix)
                      ELSE [ix EXCEPT !.pc = "event_apply", !.batch = ms]
        ELSE ix' = EventFailed(ix)
    /\ UNCHANGED <<envVars, storeVars, phases, phase_results, runs, registryVars>>

\* handle_event: one iteration of parse_and_apply_mutations(..)?; start logs the error
HandleEventApply ==
    /\ ix.pc = "event_apply"
    /\ LET m == NextOf(ix.batch)
       IN \E ok \in BOOLEAN :
           /\ m.bad => ~ok
           /\ IF ok
              THEN /\ Apply(m)
                   /\ ix' = IF Len(ix.batch) = 1
                            THEN EventDone(ix)
                            ELSE [ix EXCEPT !.batch = Tail(@)]
              ELSE /\ ix' = EventFailed(ix)
                   /\ UNCHANGED storeVars
    /\ UNCHANGED <<envVars, phases, phase_results, runs, registryVars>>

\* the indexer process stops anywhere and is started again on the same store
Restart ==
    /\ ix.pc # "init"
    /\ runs < MaxRuns
    /\ runs' = runs + 1
    /\ ix' = IdleIx
    /\ phases' = <<>> /\ phase_results' = <<>>
    /\ processor_mapping' = {} /\ listeners' = {}
    /\ UNCHANGED <<envVars, storeVars, reg>>

recover_state == RecoverStateOpen \/ RecoverStateEventDb \/ RecoverStateDone

recover_from_fetched_blocks ==
    RecoverFetchedBegin \/ RecoverFetchedFetch \/ RecoverFetchedApply

start ==
    \/ StartCall
    \/ recover_state
    \/ recover_from_ar
    \/ recover_from_fetched_blocks
    \/ Subscribe
    \/ SleepDone
    \/ StreamMessage
    \/ handle_event
    \/ HandleEventApply

\* ============================================================ admin setup
VARIABLES
    admin_addr,       \* IndexerNodeImpl::admin_addr: the configured string
    ix_network_id,    \* IndexerNodeImpl::network_id: the AtomicU64
    setup_rsp         \* history: the last Setup request, its status and the network id before it

setupVars == <<admin_addr, ix_network_id, setup_rsp>>

\* address strings and the addresses they parse to; 0 is a string that is none
AddressOf ==
    [a \in {"0xAA", "0xaa", "0xBB", "admin"} |->
        CASE a \in {"0xAA", "0xaa"} -> 1
          [] a = "0xBB" -> 2
          [] OTHER -> 0]

\* the addresses that sign requests
Signers == {1, 2}

\* the network ids a payload asks for; NoField is a payload without the field
NoField == 1 - 2

NetworkFields == {NoField, 2, 3}

NoRsp == [status |-> "none", signer |-> 0, verifies |-> FALSE, network |-> NoField, before |-> 0]

\* MutationUtil::verify_setup(&payload, signature): the signer and the data, or an error
verify_setup(req) ==
    IF req.verifies THEN [ok |-> TRUE, addr |-> req.signer, network |-> req.network]
    ELSE [ok |-> FALSE, addr |-> 0, network |-> NoField]

\* MutationUtil::get_u64_field(&data, "network", 0_u64)
get_u64_field(network, default) == IF network = NoField THEN default ELSE network

\* a handler that takes every signer for the admin
IsAdmin_Always(admin, addr) == TRUE

\* admin_addr != addr, negated
IsAdmin(admin, addr) == admin = addr

\* IndexerNode::setup: the status it answers with and the network id it leaves
SetupOutcome(req) ==
    LET v == verify_setup(req)
        admin == AddressOf[admin_addr]
    IN IF ~v.ok THEN [status |-> "InvalidArgument", network_id |-> ix_network_id]
       ELSE IF admin = 0 THEN [status |-> "Internal", network_id |-> ix_network_id]
       ELSE IF ~IsAdmin(admin, v.addr)
            THEN [status |-> "PermissionDenied", network_id |-> ix_network_id]
       ELSE [status |-> "Ok", network_id |-> get_u64_field(v.network, 0)]

InitSetup ==
    /\ admin_addr \in DOMAIN AddressOf
    /\ ix_network_id = 1
    /\ setup_rsp = NoRsp

\* a node nobody sent Setup to
NoSetup ==
    /\ admin_addr = "0xAA"
    /\ ix_network_id = 1
    /\ setup_rsp = NoRsp

\* one Setup request, handled
setup ==
    \E signer \in Signers, verifies \in BOOLEAN, network \in NetworkFields :
        LET req == [signer |-> signer, verifies |-> verifies, network |-> network]
            out == SetupOutcome(req)
        IN /\ ix_network_id' = out.network_id
           /\ setup_rsp' = [status |-> out.status, signer |-> signer,
                            verifies |-> verifies, network |-> network,
                            before |-> ix_network_id]
           /\ UNCHANGED admin_addr

\* ---------------------------------------------------------------- event history
\* what the live loop did with the events it received: the watermark's block and
\* the length of the primary log when the event in hand fetched its range, the
\* event whose handling failed last, and the event handled last
VARIABLE event_hist

histVars == <<event_hist>>

NoHist == [wm_block |-> 0, fetch_len |-> 0, failed_event |-> <<>>, done_event |-> <<>>]

InitHist == event_hist = NoHist

\* the history after a step of the live loop
RecordEvent ==
    LET fetched == IF ix.pc = "handle_event"
                   THEN [event_hist EXCEPT !.wm_block = WatermarkOf(block_state).block,
                                           !.fetch_len = Len(primary_log)]
                   ELSE event_hist
    IN event_hist' =
        IF ix.pc \in {"handle_event", "event_apply"} /\ ix'.handled = "Ok"
        THEN [NoHist EXCEPT !.done_event =
                  <<[block_id |-> ix.event, wm_block |-> fetched.wm_block,
                     fetch_len |-> fetched.fetch_len, lost |-> event_hist.failed_event]>>]
        ELSE IF ix.pc \in {"handle_event", "event_apply"} /\ ix'.handled = "Err"
        THEN [NoHist EXCEPT !.failed_event = <<ix.event>>]
        ELSE IF ix.pc = "stream" /\ ix'.pc = "handle_event"
        THEN [event_hist EXCEPT !.done_event = <<>>]
        ELSE fetched

\* ---------------------------------------------------------------- writers
\* a writer takes the block and order of its mutation with
\* generate_mutation_block_and_order and hands them to add_mutation afterwards
VARIABLES
    allocated,            \* the <<block, order>> pairs generated and not yet added
    record_batches        \* history: <<rollup record, batch uploaded for it>>

writerVars == <<allocated, record_batches>>

InitWriters == allocated = {} /\ record_batches = {}

\* storage.generate_mutation_block_and_order(payload, signature): the open block
\* and the next order in it
generate_mutation_block_and_order ==
    LET order == Cardinality({m \in mutations \cup allocated : m[1] = current_block})
    IN /\ order <= MaxOrder
       /\ Cardinality(allocated) < MaxInFlight
       /\ allocated' = allocated \cup {<<current_block, order>>}
       /\ UNCHANGED <<rollupVars, record_batches>>

\* storage.add_mutation(.., block, order, ..): the mutation enters the log under
\* the block and order it was given
add_mutation ==
    \E m \in allocated :
        /\ mutations' = mutations \cup {m}
        /\ allocated' = allocated \ {m}
        /\ UNCHANGED <<sys_config, cfgVars, clientVars, pendingVars, current_block,
                       recordVars, remoteVars, tick, upd, gcHistVars, record_batches>>

\* the history after a step of tick t: the record it stored with its batch
RecordBatch(t) ==
    record_batches' =
        IF rollup_records' # rollup_records
        THEN record_batches \cup {<<rollup_records'[Len(rollup_records')], tick[t].batch>>}
        ELSE record_batches

vars == <<rollupVars, registryVars, indexerVars, setupVars, histVars, writerVars>>

Init == InitRollup /\ InitRegistry /\ NoIndexer /\ NoSetup /\ InitHist /\ InitWriters

\* an indexer node: no rollup executor is configured on it
InitIndexerNode ==
    InitRollup /\ sys_config = NoConfig /\ InitRegistry /\ InitIndexer /\ NoSetup /\ InitHist /\ InitWriters

\* an indexer node under any admin configuration, before start is called
InitSetupNode ==
    InitRollup /\ sys_config = NoConfig /\ InitRegistry /\ NoIndexer /\ InitSetup /\ InitHist /\ InitWriters

\* the rollup executor under the configuration it was built with: writers fill
\* the mutation log while the scheduler runs one tick after the other
Next ==
    \/ AddMutation /\ UNCHANGED <<registryVars, indexerVars, setupVars, histVars, writerVars>>
    \/ IncreaseBlock /\ UNCHANGED <<registryVars, indexerVars, setupVars, histVars, writerVars>>
    \/ process(1) /\ UNCHANGED <<registryVars, indexerVars, setupVars, histVars, writerVars>>

Spec == Init /\ [][Next]_vars

\* the same with configuration reloads: an administrator persists new
\* configurations and the update hook calls update_config while ticks run
NextReload ==
    \/ AddMutation /\ UNCHANGED <<registryVars, indexerVars, setupVars, histVars, writerVars>>
    \/ current_block < MaxReloadBlock /\ IncreaseBlock
           /\ UNCHANGED <<registryVars, indexerVars, setupVars, histVars, writerVars>>
    \/ PersistConfig /\ UNCHANGED <<registryVars, indexerVars, setupVars, histVars, writerVars>>
    \/ update_config /\ UNCHANGED <<registryVars, indexerVars, setupVars, histVars, writerVars>>
    \/ process(1) /\ UNCHANGED <<registryVars, indexerVars, setupVars, histVars, writerVars>>

SpecReload == Init /\ [][NextReload]_vars

\* concurrent callers of start_an_event_task on one indexer
NextRegistry ==
    \E r \in RegIds : start_an_event_task(r) /\ UNCHANGED <<rollupVars, indexerVars, setupVars, histVars, writerVars>>

SpecRegistry == Init /\ [][NextRegistry]_vars

\* the indexer against a primary node that keeps appending, with restarts
NextIndexer ==
    \/ PrimaryAppend /\ UNCHANGED <<rollupVars, registryVars, setupVars, histVars, writerVars>>
    \/ ArchiveRollup /\ UNCHANGED <<rollupVars, registryVars, setupVars, histVars, writerVars>>
    \/ start /\ UNCHANGED <<rollupVars, setupVars, histVars, writerVars>>
    \/ Restart /\ UNCHANGED <<rollupVars, setupVars, histVars, writerVars>>

SpecIndexer == InitIndexerNode /\ [][NextIndexer]_vars

\* Setup requests arriving at an indexer node
NextSetup == setup /\ UNCHANGED <<rollupVars, registryVars, indexerVars, histVars, writerVars>>

SpecSetup == InitSetupNode /\ [][NextSetup]_vars

\* the indexer's live loop against a primary node that keeps appending, with
\* the history of its events
NextLive ==
    \/ PrimaryAppend /\ UNCHANGED <<rollupVars, registryVars, setupVars, histVars, writerVars>>
    \/ start /\ RecordEvent /\ UNCHANGED <<rollupVars, setupVars, writerVars>>

SpecLive == InitIndexerNode /\ [][NextLive]_vars

\* the rollup executor with writers that take their block first and add the
\* mutation afterwards, while the block counter advances and ticks run
NextWriters ==
    \/ generate_mutation_block_and_order
           /\ UNCHANGED <<registryVars, indexerVars, setupVars, histVars>>
    \/ add_mutation /\ UNCHANGED <<registryVars, indexerVars, setupVars, histVars>>
    \/ IncreaseBlock
           /\ UNCHANGED <<registryVars, indexerVars, setupVars, histVars, writerVars>>
    \/ process(1) /\ RecordBatch(1) /\ allocated' = allocated
           /\ UNCHANGED <<registryVars, indexerVars, setupVars, histVars>>

SpecWriters == Init /\ [][NextWriters]_vars

\* start up to the live loop: the three recovery phases, awaited one after the
\* other by the task that runs start
Recovery ==
    (StartCall \/ recover_state \/ recover_from_ar \/ recover_from_fetched_blocks)
        /\ UNCHANGED <<rollupVars, setupVars, histVars, writerVars>>

\* the recovery phases against a primary node whose log is finite; the runtime
\* keeps polling the task, so a recovery step that stays possible is taken
NextRecovery ==
    \/ PrimaryAppend /\ UNCHANGED <<rollupVars, registryVars, setupVars, histVars, writerVars>>
    \/ ArchiveRollup /\ UNCHANGED <<rollupVars, registryVars, setupVars, histVars, writerVars>>
    \/ Recovery

SpecRecovery == InitIndexerNode /\ [][NextRecovery]_vars /\ WF_vars(Recovery)

\* two process() invocations overlapping on one executor, which nothing in
\* process() excludes, while writers fill the log
NextOverlap ==
    \/ AddMutation /\ UNCHANGED <<registryVars, indexerVars, setupVars, histVars, writerVars>>
    \/ current_block < MaxOverlapBlock /\ IncreaseBlock
           /\ UNCHANGED <<registryVars, indexerVars, setupVars, histVars, writerVars>>
    \/ \E t \in TickIds :
           /\ Len(rollup_records) < MaxOverlapRecords
           /\ process(t)
           /\ UNCHANGED <<registryVars, indexerVars, setupVars, histVars, writerVars>>

SpecOverlap == Init /\ [][NextOverlap]_vars

\* the highest block id of the primary node
LastBlockId == CHOOSE b \in BlockIds : \A c \in BlockIds : c <= b

\* a step of start
StartStep == start /\ UNCHANGED <<rollupVars, setupVars, histVars, writerVars>>

\* the primary node announces its highest block
LastBlockEvent == StartStep /\ ix.pc = "stream" /\ ix'.pc = "handle_event" /\ ix'.event = LastBlockId

\* the call of the live loop at pc (for the event of the highest block, once
\* an event is in hand) returns without an error
Succeeds(pc) ==
    /\ StartStep
    /\ ix.pc = pc
    /\ IF pc = "subscribe" THEN ix'.pc = "stream"
       ELSE ix.event = LastBlockId /\ ix'.handled # "Err"

\* parse_and_apply_mutations applies the mutation that stands n before the end
\* of the batch of the highest block's event
ApplySucceeds(n) == Succeeds("event_apply") /\ Len(ix.batch) = n

\* the indexer against a primary node that keeps appending and keeps announcing
\* its highest block, with calls that cannot fail forever: only a mutation that
\* is bad keeps failing
NextProgress ==
    \/ PrimaryAppend /\ UNCHANGED <<rollupVars, registryVars, setupVars, histVars, writerVars>>
    \/ StartStep

SpecProgress ==
    InitIndexerNode /\ [][NextProgress]_vars
        /\ WF_vars(StartStep) /\ SF_vars(LastBlockEvent)
        /\ SF_vars(Succeeds("subscribe")) /\ SF_vars(Succeeds("handle_event"))
        /\ \A n \in 1..(MaxPrimaryLen + 1) : SF_vars(ApplySucceeds(n))

\* ===================================================== rollup executor claims
RollupRanges == {RangeOf(rollup_records[i]) : i \in 1..Len(rollup_records)}

\* number of rollup records that start strictly after block b
RoundsAfter(b) ==
    Cardinality({i \in 1..Len(rollup_records) : rollup_records[i].start_block > b})

Min(S) == CHOOSE x \in S : \A y \in S : x <= y

\* C1: after any sequence of sequential ticks the rollup records, in append
\* order, have non-empty ranges, the first starts at block 0 and each later one
\* starts where the previous one ends.
C1_RollupRangesContiguous ==
    /\ \A i \in 1..Len(rollup_records) :
           rollup_records[i].start_block < rollup_records[i].end_block
    /\ Len(rollup_records) >= 1 => rollup_records[1].start_block = 0
    /\ \A i \in 2..Len(rollup_records) :
           rollup_records[i].start_block = rollup_records[i - 1].end_block

\* three records are stored and the last tick failed
C1_Witness ==
    /\ Len(rollup_records) >= 3
    /\ tick[1].pc = "idle" /\ tick[1].result = "Err"

\* C2: every range gc_range_mutation has deleted, and every GC record's range,
\* is the range of a rollup record that is stored (gc_mutation leaves the rollup
\* log alone, so the record was stored when the deletion happened).
C2_GcOnlyRolledUp ==
    /\ \A d \in gc_deleted : d \in RollupRanges
    /\ \A i \in 1..Len(gc_records) : RangeOf(gc_records[i]) \in RollupRanges

\* a mutation was reclaimed: a GC record exists and a block it covers is empty
C2_Witness ==
    /\ Len(gc_records) >= 1
    /\ gc_deleted # {}
    /\ \E m \in rollup_records[1].start_block..(rollup_records[1].end_block - 1) :
           \A x \in mutations : x[1] # m

C4_GcGating ==
    (/\ \A t \in TickIds : tick[t].pc # "gc"
     /\ ~gc_failed
     /\ gc_offsets_used \subseteq {min_gc_round_offset})
    => /\ Len(gc_records) = Max(0, Len(rollup_records) - min_gc_round_offset)
       /\ \A i \in 1..Len(gc_records) :
              RangeOf(gc_records[i]) = RangeOf(rollup_records[i])

\* k = 2: the fourth rollup has returned and the two oldest ranges are retired
C4_Witness ==
    /\ min_gc_round_offset = 2
    /\ tick[1].pc = "idle"
    /\ ~gc_failed
    /\ Len(rollup_records) = 4
    /\ Len(gc_records) = 2

\* C7: the pair of clients a tick has loaded and works with comes from one
\* configuration.
C7_TickSeesOneConfig ==
    \A t \in TickIds :
        tick[t].pc \notin {"idle", "load_ar"} => tick[t].meta_store = tick[t].ar_toolbox

\* ============================================================ registry claims
RegsOf(a) == {r \in RegIds : reg[r].contract_address = a}

\* C5: under every interleaving of registrations the registry holds at most one
\* entry per contract address and at most one listener is spawned per contract
\* address; it is the registered one. Of the calls for one address that reach
\* the registry exactly one inserts and spawns, the others fail and spawn nothing.
C5_AtMostOneListener ==
    \A a \in ContractAddrs :
        LET inserted == {r \in RegsOf(a) : reg[r].pc = "spawn" \/ reg[r].result = "Ok"}
            reached == {r \in RegsOf(a) :
                            reg[r].pc = "spawn" \/ reg[r].result \in {"Ok", ExistErr}}
        IN /\ Cardinality({e \in processor_mapping : e.contract_address = a}) <= 1
           /\ Cardinality({l \in listeners : l[1] = a}) <= 1
           /\ \A l \in listeners :
                  l[1] = a => [contract_address |-> a, processor |-> l[2]] \in processor_mapping
           /\ \A r \in RegsOf(a) :
                  (reg[r].pc = "done" /\ reg[r].result # "Ok") => <<a, r>> \notin listeners
           /\ reached # {} => Cardinality(inserted) = 1

\* three calls for one contract address have returned after racing for the lock
C5_Witness ==
    \E a \in ContractAddrs :
        /\ \A r \in RegIds : reg[r].pc = "done" /\ reg[r].contract_address = a
        /\ \A r \in RegIds : ~reg[r].existed
        /\ Cardinality({r \in RegIds : reg[r].result = ExistErr}) = 2

\* C6: a call of start_an_event_task on a contract address that is already a
\* key of the registry fails with the already-registered error ("contract_addr
\* .. exist"), leaves the entry and its listener unchanged and spawns nothing.
\* The processor is constructed before the key is looked up, so the call can
\* return the construction error instead.
C6_ExistingKeyFailsWithExist ==
    \A r \in RegIds :
        reg[r].existed =>
            /\ ProcessorOf(processor_mapping, reg[r].contract_address) = reg[r].prior
            /\ <<reg[r].contract_address, r>> \notin listeners
            /\ reg[r].pc = "done" => reg[r].result = ExistErr

\* the part of C6 the code keeps: the call fails, with either error, and the
\* entry and its listener stay as they were
C6_NoSilentReplace ==
    \A r \in RegIds :
        reg[r].existed =>
            /\ ProcessorOf(processor_mapping, reg[r].contract_address) = reg[r].prior
            /\ <<reg[r].contract_address, r>> \notin listeners
            /\ reg[r].pc = "done" => reg[r].result \in {ExistErr, ConstructErr}
            /\ \A l \in listeners :
                   l[1] = reg[r].contract_address => l[2] = reg[r].prior


\* ============================================================= indexer claims
RECURSIVE SortedKeys(_)
\* the keys of S in (block, order) ascending order
SortedKeys(S) ==
    IF S = {} THEN <<>>
    ELSE LET k == CHOOSE x \in S : \A y \in S : y = x \/ KeyLess(x, y)
         IN <<k>> \o SortedKeys(S \ {k})

PrimaryKeys == [i \in 1..Len(primary_log) |-> KeyOf(primary_log[i])]

\* C8: whatever batches the indexer applied (backlog windows, live fetches,
\* replays after a restart, with the same mutation in several of them), the
\* document store is what applying each distinct mutation once in (block, order)
\* ascending order gives. The backlog cursor moves on by CursorStride whatever
\* was applied, so it can pass a mutation the primary appended meanwhile; the
\* blob replay of a later start then applies it after its successors.
C8_AppliedOnceInOrder ==
    doc_log = SortedKeys(applied_keys)

\* C9: in every state the mutations applied to the document store are a
\* contiguous prefix of the primary's log in (block, order) ascending order.
\* The backlog cursor passing a mutation the primary appended meanwhile leaves a
\* hole below the watermark.
C9_AppliedIsPrefix ==
    /\ Len(doc_log) <= Len(primary_log)
    /\ doc_log = SubSeq(PrimaryKeys, 1, Len(doc_log))

FatalCauses == {"recover_db_state", "recover_block_state"}

\* C10: start enters recover_state, recover_from_ar, recover_from_fetched_blocks
\* once each in that order and subscribes only after all three returned Ok; when
\* recovering the document store or reading the block state fails in one of
\* them, start returns the error and never subscribes.
C10_PhasesInOrder ==
    /\ Len(phases) <= Len(StartPhases)
    /\ \A i \in 1..Len(phases) : phases[i] = StartPhases[i]
    /\ Len(phase_results) \in {Len(phases) - 1, Len(phases)}
    /\ (ix.subscribed \/ Len(phases) = 4) =>
           /\ Len(phase_results) = 3
           /\ \A i \in 1..3 : phase_results[i] = "Ok"
    /\ ix.pc \in {"subscribe", "sleep", "stream", "handle_event", "event_apply", "panicked"}
           => Len(phases) = 4
    /\ ix.failed \in FatalCauses =>
           /\ ix.pc = "returned" /\ ix.result = "Err"
           /\ ~ix.subscribed /\ Len(phases) < 4

\* reading the block state failed in recover_from_fetched_blocks after the two
\* phases before it returned Ok
C10_Witness ==
    /\ ix.pc = "returned"
    /\ ix.failed = "recover_block_state"
    /\ phases = SubSeq(StartPhases, 1, 3)
    /\ phase_results = <<"Ok", "Ok", "Err">>
    /\ doc_log # <<>>

\* ======================================================== rollup tick claims
\* tick t takes a step
TickSteps(t) == tick'[t] # tick[t]

\* the batch tick t works on
BatchOf(t) ==
    get_range_mutations(mutations, tick[t].last_end_block, tick[t].current_block)

\* the start_block of the newest rollup record, 0 without one
LastStart == IF rollup_records = <<>> THEN 0 ELSE rollup_records[Len(rollup_records)].start_block

\* the end_block of the newest rollup record, 0 without one
LastEnd == IF rollup_records = <<>> THEN 0 ELSE rollup_records[Len(rollup_records)].end_block

\* after the step nothing was uploaded, no contract call was made, no rollup or
\* GC record was written and nothing was collected since tick t began
NothingRolledUp(t) ==
    LET s == tick[t].at_start[1]
    IN /\ rollup_records' = s.rollup_records
       /\ gc_records' = s.gc_records
       /\ last_blob' = s.last_blob
       /\ rollup_step' = s.rollup_step
       /\ gc_deleted' = s.gc_deleted

\* C11: a configured tick that finds a non-empty batch whose size M is below
\* min_rollup_size returns Ok having uploaded nothing, called no contract, written
\* no rollup or GC record, and leaves the pending counters at (last_start,
\* current, number of mutations of the batch, M).
C11_ThresholdGate ==
    [][\A t \in TickIds :
        LET batch == BatchOf(t)
            M == get_array_memory_size(batch)
        IN (/\ tick[t].pc = "fetch"
            /\ TickSteps(t)
            /\ batch # {}
            /\ M < min_rollup_size
            /\ tick'[t].result # "Err")
           => /\ tick'[t].pc = "idle"
              /\ tick'[t].result = "Ok"
              /\ NothingRolledUp(t)
              /\ pending_start_block' = LastStart
              /\ pending_end_block' = tick[t].current_block
              /\ pending_mutations' = Cardinality(batch)
              /\ pending_data_size' = M]_vars

\* a tick returned at the threshold gate after an earlier rollup: the counters
\* hold the earlier record's start, the block counter, one mutation and its size
C11_Witness ==
    /\ tick[1].pc = "idle" /\ tick[1].result = "Ok"
    /\ Len(rollup_records) >= 1
    /\ LastStart # LastEnd
    /\ pending_start_block = LastStart
    /\ pending_end_block = current_block
    /\ pending_mutations = 1
    /\ pending_data_size = 2
    /\ pending_data_size < min_rollup_size

\* tick t returns with this step
TickReturns(t) == tick[t].pc # "idle" /\ tick'[t].pc = "idle"

\* the record a tick that began in state s of the stores appends
RecordOfTick(t) ==
    LET recs == tick[t].at_start[1].rollup_records
    IN [start_block |-> IF recs = <<>> THEN 0 ELSE recs[Len(recs)].end_block,
        end_block |-> tick[t].current_block]

\* the step appended exactly the record of tick t to what the tick found
OneRecordAppended(t) ==
    LET recs == tick[t].at_start[1].rollup_records
    IN /\ Len(rollup_records') = Len(recs) + 1
       /\ SubSeq(rollup_records', 1, Len(recs)) = recs
       /\ rollup_records'[Len(recs) + 1].start_block = RecordOfTick(t).start_block
       /\ rollup_records'[Len(recs) + 1].end_block = RecordOfTick(t).end_block

\* C12 as stated: a tick whose batch reached min_rollup_size and whose upload
\* and contract update succeeded has appended exactly one rollup record
\* [last_end, current) when it returns, and the four pending counters are zero.
C12_CountersZero ==
    [][\A t \in TickIds :
        (TickReturns(t) /\ tick[t].pc \in {"record", "gc"})
        => /\ OneRecordAppended(t)
           /\ pending_start_block' = 0 /\ pending_end_block' = 0
           /\ pending_mutations' = 0 /\ pending_data_size' = 0]_vars

\* C12 amended: when the record was stored as well, the tick has appended exactly
\* one rollup record [last_end, current) when it returns, pending_mutations and
\* pending_data_size are zero and pending_start_block = pending_end_block =
\* current; when storing the record failed the tick appended none.
C12_ThresholdCrossed ==
    [][\A t \in TickIds :
        /\ (TickReturns(t) /\ tick[t].pc = "gc")
           => /\ OneRecordAppended(t)
              /\ pending_start_block' = tick[t].current_block
              /\ pending_end_block' = tick[t].current_block
              /\ pending_mutations' = 0 /\ pending_data_size' = 0
        /\ (TickReturns(t) /\ tick[t].pc = "record")
           => /\ tick'[t].result = "Err"
              /\ rollup_records' = tick[t].at_start[1].rollup_records
        /\ (tick[t].pc = "fetch" /\ tick'[t].pc = "upload")
           => get_array_memory_size(BatchOf(t)) >= min_rollup_size]_vars

\* the second rollup of a run returned: its record starts where the first ended
\* and the counters show the empty range at its end
C12_Witness ==
    /\ tick[1].pc = "idle" /\ tick[1].result = "Ok"
    /\ Len(rollup_records) = 2
    /\ rollup_records[2].start_block = rollup_records[1].end_block
    /\ rollup_records[2].end_block = current_block
    /\ pending_start_block = current_block /\ pending_end_block = current_block
    /\ pending_mutations = 0 /\ pending_data_size = 0

\* C13: a tick that finds the on-chain client or the blob-store client absent
\* returns Ok and changes nothing: it flushed nothing, uploaded nothing, called no
\* contract, wrote no rollup or GC record and left the pending counters alone.
C13_ConfigurationGate ==
    [][\A t \in TickIds :
        (/\ tick[t].pc = "load_ar"
         /\ TickSteps(t)
         /\ (tick[t].meta_store = 0 \/ ar_toolbox = 0))
        => /\ tick'[t].pc = "idle"
           /\ tick'[t].result = "Ok"
           /\ ~tick[t].flushed
           /\ NothingRolledUp(t)
           /\ <<pending_start_block', pending_end_block', pending_mutations',
                pending_data_size'>> = tick[t].at_start[1].pending
           /\ UNCHANGED <<mutations, current_block>>]_vars

\* a tick returned while update_config had stored the on-chain client and not yet
\* the blob-store client, with mutations waiting in the log
C13_Witness ==
    /\ tick[1].pc = "idle" /\ tick[1].result = "Ok"
    /\ meta_store # 0 /\ ar_toolbox = 0
    /\ mutations # {} /\ current_block >= 1
    /\ rollup_records = <<>> /\ last_blob = NoBlob /\ rollup_step = 0
    /\ pending_end_block = 0 /\ pending_mutations = 0

\* C14: after a tick failed behind the threshold gate (upload, contract update or
\* storing the record) no record was appended, and every later tick starts its
\* batch at the same block and covers the failed tick's whole range, up to the
\* record that is finally stored.
C14_FailedRangeRedone ==
    \A t \in TickIds :
        tick[t].prev # <<>> =>
            LET p == tick[t].prev[1]
                old == get_range_mutations(mutations, p.start_block, p.end_block)
            IN /\ tick[t].pc # "gc" => LastEnd = p.start_block
               /\ tick[t].pc = "idle" /\ tick[t].at_start = <<>> => tick[t].result = "Err"
               /\ tick[t].pc \in {"fetch", "upload", "contract", "record", "gc"} =>
                      /\ tick[t].last_end_block = p.start_block
                      /\ tick[t].current_block >= p.end_block
               /\ tick[t].pc = "fetch" => old \subseteq BatchOf(t)
               /\ tick[t].pc \in {"upload", "contract", "record", "gc"} =>
                      old \subseteq tick[t].batch
               /\ tick[t].pc = "gc" =>
                      /\ rollup_records[Len(rollup_records)].start_block = p.start_block
                      /\ rollup_records[Len(rollup_records)].end_block >= p.end_block

\* the tick after a failed one has stored its record: it starts at the failed
\* tick's start and reaches further
C14_Witness ==
    /\ tick[1].prev # <<>>
    /\ tick[1].pc = "gc"
    /\ tick[1].prev[1].start_block >= 1
    /\ tick[1].current_block > tick[1].prev[1].end_block
    /\ Cardinality(tick[1].batch) >= 2

\* ======================================================= indexer live claims
LivePcs == {"subscribe", "sleep", "stream", "handle_event", "event_apply"}

\* C15: once start is in the live phase it stays there: a failed subscribe call
\* and an error of the open stream both lead to the 5 second sleep and a new
\* subscription; start neither returns nor aborts. The stream's error is
\* unwrapped, so start panics on it.
C15_SubscriptionResilience ==
    [][(ix.pc \in LivePcs /\ ix' # ix /\ runs' = runs) =>
          /\ ix'.pc \in LivePcs
          /\ (ix.pc = "subscribe" /\ ix'.pc # "stream") => ix'.pc = "sleep"
          /\ ix.pc = "sleep" => ix'.pc = "subscribe"
          /\ UNCHANGED <<phases, phase_results>>]_vars

\* ================================================================ setup claims
\* the last Setup request replaced the network id
Replaced ==
    /\ setup_rsp.status = "Ok"
    /\ ix_network_id = IF setup_rsp.network = NoField THEN 0 ELSE setup_rsp.network

\* the last Setup request failed with status st and left the network id alone
FailedWith(st) == setup_rsp.status = st /\ ix_network_id = setup_rsp.before

\* C16 as stated: Setup replaces network_id exactly when payload and signature
\* verify and the signer is the configured admin address; it fails with
\* InvalidArgument when they do not verify and with PermissionDenied for any
\* other signer, network_id unchanged.
C16_SetupAdminOnly ==
    setup_rsp # NoRsp =>
        LET admin == AddressOf[admin_addr]
        IN /\ Replaced <=> (setup_rsp.verifies /\ setup_rsp.signer = admin)
           /\ ~setup_rsp.verifies => FailedWith("InvalidArgument")
           /\ (setup_rsp.verifies /\ setup_rsp.signer # admin)
                  => FailedWith("PermissionDenied")

\* C16 amended: the same, except that with a configured admin address that is
\* not an address every verified request fails with Internal, network_id
\* unchanged.
C16_SetupAdminOnlyParsed ==
    setup_rsp # NoRsp =>
        LET admin == AddressOf[admin_addr]
        IN /\ Replaced <=> (setup_rsp.verifies /\ setup_rsp.signer = admin)
           /\ ~setup_rsp.verifies => FailedWith("InvalidArgument")
           /\ (setup_rsp.verifies /\ admin = 0) => FailedWith("Internal")
           /\ (setup_rsp.verifies /\ admin # 0 /\ setup_rsp.signer # admin)
                  => FailedWith("PermissionDenied")

\* the admin, configured in another spelling of its address, replaced the
\* network id after another signer had been refused
C16_Witness ==
    /\ admin_addr = "0xaa"
    /\ setup_rsp.status = "Ok" /\ setup_rsp.signer = 1
    /\ setup_rsp.network = 3 /\ ix_network_id = 3
    /\ setup_rsp.before = 2

\* ====================================================== indexer startup claims
\* C17: recover_state fails only when the document store cannot be recovered or
\* listed; an error on one event database (its address, its collections, its
\* listener, its contract address registered already) is dropped, the remaining
\* databases are gone through and recover_state returns Ok. The address and the
\* collections are read with ?, so their errors end recover_state and start.
C17_PerDatabaseIsolation ==
    /\ (Len(phase_results) >= 1 /\ phase_results[1] = "Err")
           => ix.failed \in {"recover_db_state", "get_all_event_db"}
    /\ ix.failed \notin {"try_from", "get_collection_of_database"}

\* C18: an event whose handling fails leaves the stream open, and once a later
\* event BlockEvent{block_id'} is handled, every mutation the primary held in the
\* blocks from the watermark's block up to and including block_id' is applied.
\* The primary's get_blocks is taken with the closed range the fetch is
\* described with; the failure itself never makes start return.
C18_LostEventRecovered ==
    /\ event_hist.failed_event # <<>> => (Len(phases) = 4 /\ ix.pc # "returned")
    /\ (get_blocks_closed /\ event_hist.done_event # <<>>) =>
           LET d == event_hist.done_event[1]
           IN \A i \in 1..d.fetch_len :
                  (d.wm_block <= primary_log[i].block /\ primary_log[i].block <= d.block_id)
                      => \E j \in 1..Len(doc_log) : doc_log[j] = KeyOf(primary_log[i])

\* the event for block 1000 was handled after the event for block 100 had
\* failed: the mutations of both blocks are applied
C18_Witness ==
    /\ get_blocks_closed
    /\ event_hist.done_event # <<>>
    /\ event_hist.done_event[1].lost = <<100>>
    /\ event_hist.done_event[1].block_id = 1000
    /\ event_hist.done_event[1].wm_block = 0
    /\ \E j \in 1..Len(doc_log) : doc_log[j] = <<100, 0>>
    /\ \E j \in 1..Len(doc_log) : doc_log[j] = <<1000, 0>>

\* ============================================================= writer claims
\* C19: whatever the interleaving of appends and ticks, the batch uploaded for
\* a stored rollup record holds only blocks below the tick's snapshot, and every
\* mutation of the log whose block lies in the record's range [start_block,
\* end_block) was in that batch. A mutation added under a block taken before
\* the counter advanced arrives behind the tick that rolled its block up.
C19_NothingLeftOut ==
    \A rb \in record_batches :
        /\ \A m \in rb[2] : rb[1].start_block <= m[1] /\ m[1] < rb[1].end_block
        /\ \A m \in mutations :
               (rb[1].start_block <= m[1] /\ m[1] < rb[1].end_block) => m \in rb[2]

\* ======================================================== termination claims
FetchPcs == {"recover_from_fetched_blocks", "fetch_blocks", "fetch_apply"}

\* C20: recover_from_fetched_blocks terminates against a finite primary log:
\* once entered it is always left, and it is left with Ok only by an iteration
\* whose fetch returned no mutation.
C20_FetchLoopTerminates ==
    /\ (ix.pc \in FetchPcs) ~> (ix.pc \notin FetchPcs)
    /\ [][(ix.pc \in FetchPcs /\ ix'.pc = "subscribe")
              => LET r == RecoverRange(ix.start_block)
                 IN /\ ix.pc = "fetch_blocks"
                    /\ get_blocks(primary_log, r[1], r[2], get_blocks_closed) = <<>>]_vars

\* the loop went from block 0 past a mutation in block 1000 and returned Ok
C20_Witness ==
    /\ ix.pc = "subscribe"
    /\ phase_results = <<"Ok", "Ok", "Ok">>
    /\ ix.start_block = 1100
    /\ \E j \in 1..Len(doc_log) : doc_log[j] = <<1000, 0>>
    /\ \E i \in 1..Len(primary_log) : primary_log[i].block = 0

\* ================================================== backlog recovery claims
\* the fetch loop returns Ok
FetchLoopReturnsOk == ix.pc = "fetch_blocks" /\ ix'.pc = "subscribe"

\* C21: when recover_from_fetched_blocks returns Ok, every mutation the primary
\* holds in a block at or after the watermark's block has been applied, however
\* the mutations lie over the block ids. The loop stops at the first window
\* without mutations, so blocks behind an empty window stay unapplied.
C21_BacklogComplete ==
    [][FetchLoopReturnsOk =>
           \A i \in 1..Len(primary_log) :
               primary_log[i].block >= WatermarkOf(block_state).block
                   => \E j \in 1..Len(doc_log) : doc_log[j] = KeyOf(primary_log[i])]_vars

\* C22: every iteration of the fetch loop moves the cursor by the width of the
\* window it requested, so the window requested next begins where the last one
\* ended and no block is requested twice. The cursor moves by 100 under a
\* window of 1,000.
C22_WindowsDoNotOverlap ==
    [][(ix.pc = "fetch_apply" /\ ix'.pc = "fetch_blocks")
           => RecoverRange(ix'.start_block)[1] = RecoverRange(ix.start_block)[2]]_vars

\* ================================================================ gc claims
\* C23: a gc_mutation call appends at most one GC record, and the record it
\* appends covers the oldest rolled-up range without a GC record: the GC
\* records have, in append order, the ranges of the rollup records in append
\* order, none skipped and none retired twice.
C23_GcFollowsRollups ==
    /\ [](/\ Len(gc_records) <= Len(rollup_records)
          /\ \A i \in 1..Len(gc_records) :
                 <<gc_records[i].start_block, gc_records[i].end_block>>
                     = RangeOf(rollup_records[i]))
    /\ [][gc_records' # gc_records
              => /\ Len(gc_records') = Len(gc_records) + 1
                 /\ SubSeq(gc_records', 1, Len(gc_records)) = gc_records]_vars

\* the first run and a later run have each retired a range
C23_Witness ==
    /\ Len(gc_records) = 2
    /\ Len(rollup_records) >= 2
    /\ gc_records[1].start_block = 0
    /\ gc_records[2].start_block = rollup_records[1].end_block

\* ======================================================== tick order claims
\* C24: within a tick update_rollup_step is invoked only after the upload
\* returned a blob, the rollup record is appended only after update_rollup_step
\* succeeded, gc_mutation is invoked only after the record was appended, and a
\* step that fails leaves every later step of the tick undone.
C24_StepsInOrder ==
    [][\A t \in TickIds : TickSteps(t) =>
           LET s == tick[t].at_start[1]
               failed == tick'[t].result = "Err"
           IN /\ tick[t].pc = "contract" => (tick[t].id # 0 /\ last_blob.id = tick[t].id)
              /\ rollup_records' # rollup_records
                     => (tick[t].id # 0 /\ last_blob.id = tick[t].id
                             /\ rollup_step = tick[t].id)
              /\ tick[t].pc = "gc"
                     => (rollup_records # <<>>
                             /\ rollup_records[Len(rollup_records)].arweave_tx = tick[t].id
                             /\ rollup_step = tick[t].id)
              /\ (failed /\ tick[t].pc = "upload") => NothingRolledUp(t)
              /\ (failed /\ tick[t].pc = "contract")
                     => (/\ rollup_step' = s.rollup_step
                         /\ rollup_records' = s.rollup_records
                         /\ gc_records' = s.gc_records
                         /\ gc_deleted' = s.gc_deleted)
              /\ (failed /\ tick[t].pc = "record")
                     => (/\ rollup_records' = s.rollup_records
                         /\ gc_records' = s.gc_records
                         /\ gc_deleted' = s.gc_deleted)]_vars

\* a tick went through the four steps: the blob, the contract and the newest
\* record agree and the first range is collected
C24_Witness ==
    /\ tick[1].pc = "idle" /\ tick[1].result = "Ok"
    /\ Len(rollup_records) = 1 /\ Len(gc_records) = 1
    /\ last_blob.id = rollup_records[1].arweave_tx
    /\ rollup_step = last_blob.id

\* the blob id of the newest rollup record, 0 without one
LastBlobId ==
    IF rollup_records = <<>> THEN 0 ELSE rollup_records[Len(rollup_records)].arweave_tx

\* C25: every upload is made with the blob id of the newest rollup record the
\* tick found (none: the empty id) and the range [last_end, current), and the
\* record appended stores the id the upload returned: each record's blob
\* points to the blob of the record before it, also behind ticks that uploaded
\* a blob and stored no record.
C25_BlobChain ==
    [][\A t \in TickIds : TickSteps(t) =>
           LET s == tick[t].at_start[1]
               found == get_last_rollup_record(s.rollup_records)
           IN /\ last_blob' # last_blob
                  => (/\ last_blob'.prev = (IF found = <<>> THEN 0 ELSE found[1].arweave_tx)
                      /\ last_blob'.start_block = (IF found = <<>> THEN 0 ELSE found[1].end_block)
                      /\ last_blob'.end_block = tick[t].current_block
                      /\ last_blob'.id \notin {0, last_blob.id, last_blob'.prev})
              /\ rollup_records' # rollup_records
                  => LET r == rollup_records'[Len(rollup_records')]
                     IN /\ r.arweave_tx = last_blob.id
                        /\ last_blob.prev = LastBlobId
                        /\ r.start_block = last_blob.start_block
                        /\ r.end_block = last_blob.end_block]_vars

\* a tick uploaded blob 2 and stored no record; the next record's blob 3 points
\* to blob 1 of the record before it
C25_Witness ==
    /\ Len(rollup_records) = 2
    /\ rollup_records[1].arweave_tx = 1
    /\ rollup_records[2].arweave_tx = 3
    /\ last_blob.id = 3 /\ last_blob.prev = 1

\* ================================================= configuration reload claims
\* C26: an update_config call that returns an error has changed none of
\* min_rollup_size, rollup_max_interval, min_gc_round_offset, network_id and the
\* two client handles, and a call that finds no configuration changes nothing.
\* The scalars and the on-chain client are stored before the later clients are
\* built, so a call failing there has stored them.
C26_UpdateConfigAllOrNothing ==
    [][/\ (upd' # upd /\ upd.pc # "idle" /\ upd'.result = "Err")
              => (cfgVars' = upd.at_start[1].cfg /\ clientVars' = upd.at_start[1].clients)
       /\ (upd' # upd /\ upd.pc = "idle" /\ upd'.pc = "idle")
              => (cfgVars' = cfgVars /\ clientVars' = clientVars)]_vars

\* ======================================================== live progress claims
PrimaryKeyIds == BlockIds \X (0..(MaxPrimaryOrder + 1))

IsApplied(k) == \E j \in 1..Len(doc_log) : doc_log[j] = k

\* in the live phase the primary holds the valid mutation k at or after the
\* watermark's block and below its highest block, and k is not applied
AwaitsApply(k) ==
    /\ ix.pc \in LivePcs
    /\ k[1] >= WatermarkOf(block_state).block /\ k[1] < LastBlockId
    /\ \E i \in 1..Len(primary_log) : KeyOf(primary_log[i]) = k /\ ~primary_log[i].bad
    /\ ~IsApplied(k)

\* C27: a mutation that fails does not hold the watermark for ever: whenever
\* valid mutations await, a later moment comes at which none does, all being
\* applied as further events arrive (or start having ended). parse_and_apply_mutations leaves the batch at the failing mutation
\* and every later event fetches the same batch again.
C27_ProgressPastBadMutation ==
    (\E k \in PrimaryKeyIds : AwaitsApply(k))
        ~> (\A k \in PrimaryKeyIds : ~AwaitsApply(k))

\* ===================================================== pending counter claims
\* C28: the pending counters do not report an empty batch while mutations wait
\* for a rollup: after a tick that passed the threshold gate and failed in the
\* upload or in the contract update, pending_mutations and pending_data_size
\* are not zero. The counters are set to zero before the upload is tried.
C28_PendingKeptOnFailure ==
    [][\A t \in TickIds :
           (TickSteps(t) /\ tick[t].pc \in {"upload", "contract"} /\ tick'[t].result = "Err")
               => (/\ pending_mutations' = Cardinality(tick[t].batch)
                   /\ pending_data_size' = tick[t].memory_size
                   /\ pending_mutations' # 0 /\ pending_data_size' # 0)]_vars

\* ===================================================== concurrent tick claims
\* C29: with two process() invocations overlapping in any way, the stored
\* rollup records keep contiguous ranges that do not overlap, and no range is
\* uploaded and recorded twice. Both invocations read the same last record
\* and store a record for the same range.
C29_ConcurrentTicksSafe ==
    /\ \A i \in 1..Len(rollup_records) :
           /\ rollup_records[i].start_block < rollup_records[i].end_block
           /\ rollup_records[i].start_block
                  = (IF i = 1 THEN 0 ELSE rollup_records[i - 1].end_block)
    /\ \A i, j \in 1..Len(rollup_records) :
           i # j => RangeOf(rollup_records[i]) # RangeOf(rollup_records[j])

====
